---- MODULE Spec2Model ----
(***************************************************************************)
(* Progress ledger of the career coach application                         *)
(* (src/enhanced_progress_tracking.py): the three SQLite tables it         *)
(* creates, the table learning_plans it updates, and the operations that   *)
(* write and read them.  Every operation opens its own connection to the   *)
(* one database file career_coach.db.                                      *)
(*                                                                         *)
(* Spec runs the operations one call at a time.  SpecConcurrent runs       *)
(* log_learning_session and check_and_award_achievements statement by      *)
(* statement on two connections.  SpecAdmin is the bulk analysis page of   *)
(* src/simple_admin_bulk.py with its tables admin_users and bulk_results.  *)
(***************************************************************************)
EXTENDS Integers, Sequences, FiniteSets, TLC

\* ------------------------------------------------------------ bounds
\* Rows detailed_progress may hold, and readings the clock may take.
MaxRows == 3
MaxTime == 3
\* Rows admin_users and bulk_results may hold.
MaxAdminRows == 2
MaxResults == 2

\* ------------------------------------------------------------ inputs
Users == {1}
\* The skills of learning_plans, which the page offers in its select boxes.
PlanSkills == {"Python"}
\* What a direct caller may pass as skill_name: any text, the empty one too.
SkillArgs == PlanSkills \cup {""}
MinuteArgs == {0, 30}
PercentArgs == {-5, 0, 50, 100, 120}
CourseArgs == {"Intro"}
NoteArgs == {"n"}
\* st.number_input("Hours Studied", 0..24) and ("Minutes Studied", 0..59).
HourInputs == {0, 1}
MinuteInputs == {0}
\* st.slider("Progress Percentage", 0, 100, 0).
SliderInputs == {0, 50, 100}
\* The connections two concurrent callers open, and what they pass.
Conns == {1, 2}
ConcurrentMinutes == {30}
\* The users that open the bulk analysis page, and what they submit.
Visitors == {1, 2}
ApiKeys == {"", "key"}
JobRoles == {"AI Engineer"}
FileNames == {"a.pdf"}
\* The button of the page a run was started by.
Clicks == {"none", "Grant Admin Access (Demo)", "Analyze Resumes"}
\* What analyze_resume does with a file: it raises, or returns a dict that
\* may lack the keys overall_score and selected.
Analyses ==
    {[raises |-> TRUE, overall_score |-> <<>>, selected |-> <<>>],
     [raises |-> FALSE, overall_score |-> <<>>, selected |-> <<>>],
     [raises |-> FALSE, overall_score |-> <<80>>, selected |-> <<TRUE>>]}

\* ------------------------------------------------------------ SQL values
\* A nullable column holds <<>> (NULL) or <<v>>.
NULL == <<>>
Val(v) == <<v>>
COALESCE(x, d) == IF x = NULL THEN d ELSE x[1]

VARIABLES
    detailed_progress,  \* table detailed_progress, in rowid order
    learning_sessions,  \* table learning_sessions, in rowid order
    achievements,       \* table achievements, in rowid order
    learning_plans,     \* table learning_plans: the status of each (user, skill)
    now,                \* CURRENT_TIMESTAMP, in whole seconds
    open_writer,        \* a connection left open with an uncommitted write
    result,             \* how the last call ended
    conn,               \* the connections of the concurrent callers
    admin_users,        \* table admin_users, in rowid order
    bulk_results        \* table bulk_results, in rowid order

vars == <<detailed_progress, learning_sessions, achievements, learning_plans,
          now, open_writer, result, conn, admin_users, bulk_results>>
tables == <<detailed_progress, learning_sessions, achievements, learning_plans>>
admin_tables == <<admin_users, bulk_results>>

\* ------------------------------------------------------------ helpers
Indices(t) == 1..Len(t)
Returned == "returned"
\* sqlite3.OperationalError("database is locked"): another connection holds
\* the write lock for longer than the connection's timeout.  The seconds
\* the call waited are left to Tick.
Locked == "database is locked"
\* The page refuses the input and shows st.error.
Refused == "st.error"

\* The scalar subquery of log_learning_session: the first row of the
\* SELECT, in rowid order, or NULL when no row matches.
SelectTimeSpent(user_id, skill_name) ==
    LET hit == {i \in Indices(detailed_progress) :
                    /\ detailed_progress[i].user_id = user_id
                    /\ detailed_progress[i].skill_name = skill_name}
    IN  IF hit = {} THEN NULL
        ELSE Val(detailed_progress[CHOOSE i \in hit : \A j \in hit : i <= j].time_spent_minutes)

\* f"Completed {skill_name}"
CompletedName(skill_name) == <<"Completed", skill_name>>

\* CountAchievements looking for another achievement_type than the one
\* the insert writes.
CountAchievements_OtherType(user_id, achievement_name) ==
    Cardinality({i \in Indices(achievements) :
                    /\ achievements[i].user_id = user_id
                    /\ achievements[i].achievement_type = "skill_completion"
                    /\ achievements[i].achievement_name = achievement_name})

\* SELECT COUNT(*) FROM achievements WHERE user_id = ? AND
\* achievement_type = 'course_completion' AND achievement_name = ?
CountAchievements(user_id, achievement_name) ==
    Cardinality({i \in Indices(achievements) :
                    /\ achievements[i].user_id = user_id
                    /\ achievements[i].achievement_type = "course_completion"
                    /\ achievements[i].achievement_name = achievement_name})

\* NeedsAward without the test of the count: the award is always made.
NeedsAward_Unchecked(user_id, skill_name) == TRUE

\* if cursor.fetchone()[0] == 0: the achievement is not there yet.
NeedsAward(user_id, skill_name) ==
    CountAchievements(user_id, CompletedName(skill_name)) = 0

\* StatusOf with the second test off by one (>= 0 for > 0).
StatusOf_ZeroInProgress(progress_percentage) ==
    IF progress_percentage >= 100 THEN "completed"
    ELSE IF progress_percentage >= 0 THEN "in_progress"
    ELSE "not_started"

\* The status update_course_progress derives from the percentage.
StatusOf(progress_percentage) ==
    IF progress_percentage >= 100 THEN "completed"
    ELSE IF progress_percentage > 0 THEN "in_progress"
    ELSE "not_started"

\* A connection no call is using.
Closed ==
    [pc |-> "closed", user_id |-> 0, skill_name |-> "", minutes_studied |-> 0,
     txn_sessions |-> <<>>, txn_progress |-> <<>>, txn_achievements |-> <<>>,
     count |-> 0]

\* ------------------------------------------------------------ Init
\* The state update_learning_progress_database leaves: the tables exist and
\* are empty.  learning_plans holds one plan row per user and skill.
Init ==
    /\ detailed_progress = <<>>
    /\ learning_sessions = <<>>
    /\ achievements = <<>>
    /\ learning_plans = [k \in Users \X PlanSkills |-> "not_started"]
    /\ now = 1
    /\ open_writer = FALSE
    /\ result = Returned
    /\ conn = [p \in Conns |-> Closed]
    /\ admin_users = <<>>
    /\ bulk_results = <<>>

\* ------------------------------------------------------------ operations
\* DATE(t): the day of a timestamp; a day has 86400 seconds.
DATE(t) == t \div 86400

\* The row INSERT INTO learning_sessions (user_id, skill_name, session_date,
\* minutes_studied, notes) VALUES (?, ?, DATE('now'), ?, ?) writes;
\* created_at defaults to CURRENT_TIMESTAMP.
SessionRow(user_id, skill_name, minutes_studied, notes) ==
    [user_id |-> user_id, skill_name |-> skill_name,
     session_date |-> DATE(now), minutes_studied |-> minutes_studied,
     notes |-> notes, created_at |-> now]

\* InsertSession writing over the last event of the user and skill, when
\* there is one, instead of adding a row.
InsertSession_Overwrite(user_id, skill_name, minutes_studied, notes) ==
    LET hit == {k \in Indices(learning_sessions) :
                    /\ learning_sessions[k].user_id = user_id
                    /\ learning_sessions[k].skill_name = skill_name}
        row == SessionRow(user_id, skill_name, minutes_studied, notes)
    IN  IF hit = {} THEN Append(learning_sessions, row)
        ELSE [learning_sessions EXCEPT
                ![CHOOSE k \in hit : \A j \in hit : j <= k] = row]

\* INSERT INTO learning_sessions: the row is added after the others.
InsertSession(user_id, skill_name, minutes_studied, notes) ==
    Append(learning_sessions,
           SessionRow(user_id, skill_name, minutes_studied, notes))

\* The row INSERT OR REPLACE INTO detailed_progress (user_id, skill_name,
\* time_spent_minutes, last_activity) writes: the other columns take their
\* defaults.
SessionProgressRow(user_id, skill_name, minutes_studied) ==
    [user_id |-> user_id, skill_name |-> skill_name,
     course_name |-> NULL, progress_percentage |-> 0,
     time_spent_minutes |->
        COALESCE(SelectTimeSpent(user_id, skill_name), 0) + minutes_studied,
     last_activity |-> now, completion_date |-> NULL,
     notes |-> NULL]

log_learning_session(user_id, skill_name, minutes_studied, notes) ==
    /\ Len(detailed_progress) < MaxRows
    /\ UNCHANGED <<conn, admin_tables>>
    /\ IF open_writer
       THEN \* the first INSERT cannot take the write lock
            /\ result' = Locked
            /\ UNCHANGED <<tables, now, open_writer>>
       ELSE /\ learning_sessions' =
                  InsertSession(user_id, skill_name, minutes_studied, notes)
            /\ detailed_progress' = Append(detailed_progress,
                  SessionProgressRow(user_id, skill_name, minutes_studied))
            /\ result' = Returned
            /\ UNCHANGED <<achievements, learning_plans, now, open_writer>>

\* INSERT OR REPLACE INTO detailed_progress: the table has no UNIQUE
\* constraint besides the autoincrement id, so the row is always added.
InsertProgress(user_id, skill_name, course_name, progress_percentage, notes) ==
    Append(detailed_progress,
        [user_id |-> user_id, skill_name |-> skill_name,
         course_name |-> Val(course_name),
         progress_percentage |-> progress_percentage,
         time_spent_minutes |-> 0, last_activity |-> now,
         completion_date |-> NULL, notes |-> Val(notes)])

\* UPDATE detailed_progress SET completion_date = CURRENT_TIMESTAMP
\* WHERE user_id = ? AND skill_name = ? AND course_name = ?
StampCompletion(rows, user_id, skill_name, course_name) ==
    [i \in DOMAIN rows |->
        IF /\ rows[i].user_id = user_id
           /\ rows[i].skill_name = skill_name
           /\ rows[i].course_name = Val(course_name)
        THEN [rows[i] EXCEPT !.completion_date = Val(now)]
        ELSE rows[i]]

\* UPDATE learning_plans SET status = ? WHERE user_id = ? AND skill_name = ?
UpdatePlan(user_id, skill_name, status) ==
    [k \in DOMAIN learning_plans |->
        IF k = <<user_id, skill_name>> THEN status ELSE learning_plans[k]]

update_course_progress(user_id, skill_name, course_name, progress_percentage, notes) ==
    /\ Len(detailed_progress) < MaxRows
    /\ UNCHANGED <<conn, admin_tables>>
    /\ IF open_writer
       THEN \* the first INSERT cannot take the write lock
            /\ result' = Locked
            /\ UNCHANGED <<tables, now, open_writer>>
       ELSE IF progress_percentage >= 100 /\ NeedsAward(user_id, skill_name)
       THEN \* check_and_award_achievements inserts on a connection of its
            \* own while this one holds the write lock: the insert raises,
            \* and this connection is left open, neither committed nor closed
            /\ result' = Locked
            /\ open_writer' = TRUE
            /\ UNCHANGED <<tables, now>>
       ELSE /\ detailed_progress' =
                  IF progress_percentage >= 100
                  THEN StampCompletion(
                          InsertProgress(user_id, skill_name, course_name,
                                         progress_percentage, notes),
                          user_id, skill_name, course_name)
                  ELSE InsertProgress(user_id, skill_name, course_name,
                                      progress_percentage, notes)
            /\ learning_plans' =
                  UpdatePlan(user_id, skill_name, StatusOf(progress_percentage))
            /\ result' = Returned
            /\ UNCHANGED <<learning_sessions, achievements, now, open_writer>>

\* The row INSERT INTO achievements (user_id, achievement_type,
\* achievement_name, description) writes; earned_date defaults to
\* CURRENT_TIMESTAMP.
AchievementRow(user_id, skill_name) ==
    [user_id |-> user_id, achievement_type |-> "course_completion",
     achievement_name |-> CompletedName(skill_name),
     description |-> <<"Successfully completed", skill_name, "course">>,
     earned_date |-> now]

check_and_award_achievements(user_id, skill_name) ==
    /\ UNCHANGED <<conn, admin_tables>>
    /\ IF ~NeedsAward(user_id, skill_name)
       THEN /\ result' = Returned
            /\ UNCHANGED <<tables, now, open_writer>>
       ELSE IF open_writer
       THEN /\ result' = Locked
            /\ UNCHANGED <<tables, now, open_writer>>
       ELSE /\ achievements' =
                  Append(achievements, AchievementRow(user_id, skill_name))
            /\ result' = Returned
            /\ UNCHANGED <<detailed_progress, learning_sessions,
                           learning_plans, now, open_writer>>

\* The "Log Session" form of enhanced_progress_tracking_page.
LogSessionForm(user_id, skill, hours, minutes, notes) ==
    LET total_minutes == (hours * 60) + minutes
    IN  IF total_minutes > 0
        THEN log_learning_session(user_id, skill, total_minutes, notes)
        ELSE /\ result' = Refused
             /\ UNCHANGED <<tables, now, open_writer, conn, admin_tables>>

\* The "Update Progress" form of enhanced_progress_tracking_page.
UpdateProgressForm(user_id, skill, course_name, progress, notes) ==
    update_course_progress(user_id, skill, course_name, progress, notes)

\* The connection a raising update_course_progress left open is finalized
\* by the garbage collector at some later time: its transaction is rolled
\* back and the write lock released.
FinalizeConnection ==
    /\ open_writer
    /\ open_writer' = FALSE
    /\ UNCHANGED <<tables, now, result, conn, admin_tables>>

\* CURRENT_TIMESTAMP moves on to the next second.
Tick ==
    /\ now < MaxTime
    /\ now' = now + 1
    /\ UNCHANGED <<tables, open_writer, result, conn, admin_tables>>

\* ------------------------------------------------------------ queries
\* Rows of a table that belong to a user, as indices in rowid order.
RowsOf(t, user_id) == {i \in Indices(t) : t[i].user_id = user_id}

\* SELECT ... FROM detailed_progress WHERE user_id = ?
\* ORDER BY last_activity DESC.  Rows of equal last_activity come out in
\* rowid order.
get_detailed_progress(user_id) ==
    LET mine == RowsOf(detailed_progress, user_id)
        Before(j, i) ==
            \/ detailed_progress[j].last_activity > detailed_progress[i].last_activity
            \/ /\ detailed_progress[j].last_activity = detailed_progress[i].last_activity
               /\ j < i
        Rank(i) == Cardinality({j \in mine : Before(j, i)}) + 1
        At(k) == detailed_progress[CHOOSE i \in mine : Rank(i) = k]
    IN  [k \in 1..Cardinality(mine) |->
            [skill_name |-> At(k).skill_name,
             course_name |-> At(k).course_name,
             progress_percentage |-> At(k).progress_percentage,
             time_spent_minutes |-> At(k).time_spent_minutes,
             last_activity |-> At(k).last_activity,
             completion_date |-> At(k).completion_date,
             notes |-> At(k).notes]]

\* SELECT ... FROM achievements WHERE user_id = ? ORDER BY earned_date DESC
get_achievements(user_id) ==
    LET mine == RowsOf(achievements, user_id)
        Before(j, i) ==
            \/ achievements[j].earned_date > achievements[i].earned_date
            \/ /\ achievements[j].earned_date = achievements[i].earned_date
               /\ j < i
        Rank(i) == Cardinality({j \in mine : Before(j, i)}) + 1
        At(k) == achievements[CHOOSE i \in mine : Rank(i) = k]
    IN  [k \in 1..Cardinality(mine) |->
            [achievement_type |-> At(k).achievement_type,
             achievement_name |-> At(k).achievement_name,
             description |-> At(k).description,
             earned_date |-> At(k).earned_date]]

\* SELECT skill_name, session_date, minutes_studied, notes
\* FROM learning_sessions WHERE user_id = ? AND
\* session_date >= DATE('now', '-{days_back} days') ORDER BY session_date DESC.
\* Rows of equal session_date come out in rowid order.
get_learning_sessions(user_id, days_back) ==
    LET mine == {i \in RowsOf(learning_sessions, user_id) :
                    learning_sessions[i].session_date >= DATE(now) - days_back}
        Before(j, i) ==
            \/ learning_sessions[j].session_date > learning_sessions[i].session_date
            \/ /\ learning_sessions[j].session_date = learning_sessions[i].session_date
               /\ j < i
        Rank(i) == Cardinality({j \in mine : Before(j, i)}) + 1
        At(k) == learning_sessions[CHOOSE i \in mine : Rank(i) = k]
    IN  [k \in 1..Cardinality(mine) |->
            [skill_name |-> At(k).skill_name,
             session_date |-> At(k).session_date,
             minutes_studied |-> At(k).minutes_studied,
             notes |-> At(k).notes]]

\* ------------------------------------------------------------ concurrent callers
\* log_learning_session and check_and_award_achievements, one statement a
\* step, each call on a connection of its own.  A connection sees the
\* committed tables and its own uncommitted rows.

\* sqlite3.OperationalError("disk I/O error") and the like: the storage
\* fails under a statement.
StorageError == "storage error"

\* The positions of log_learning_session at which a statement is still to
\* run: before the session insert, before the progress write, before commit.
LogPositions == {"log_connected", "session_inserted", "progress_inserted"}

\* A connection that has executed an INSERT and not committed it holds the
\* write lock of the database file, also when its call has raised and left
\* it open.
HoldsWriteLock(p) ==
    \/ conn[p].txn_sessions # <<>>
    \/ conn[p].txn_progress # <<>>
    \/ conn[p].txn_achievements # <<>>
WriteLockFree(p) == \A q \in Conns \ {p} : ~HoldsWriteLock(q)

\* conn = sqlite3.connect('career_coach.db') in log_learning_session
ConnectLog(p, user_id, skill_name, minutes_studied) ==
    /\ conn[p].pc = "closed"
    /\ conn' = [conn EXCEPT ![p] =
                  [Closed EXCEPT !.pc = "log_connected",
                                 !.user_id = user_id,
                                 !.skill_name = skill_name,
                                 !.minutes_studied = minutes_studied]]
    /\ UNCHANGED <<tables, now, open_writer, result, admin_tables>>

\* ExecuteInsertSession on a connection in autocommit mode: the row is
\* committed by the INSERT itself.
ExecuteInsertSession_Autocommit(p) ==
    /\ conn[p].pc = "log_connected"
    /\ WriteLockFree(p)
    /\ Len(detailed_progress) < MaxRows
    /\ learning_sessions' =
          InsertSession(conn[p].user_id, conn[p].skill_name,
                        conn[p].minutes_studied, "")
    /\ conn' = [conn EXCEPT ![p].pc = "session_inserted"]
    /\ UNCHANGED <<detailed_progress, achievements, learning_plans, now,
                   open_writer, result, admin_tables>>

\* cursor.execute(INSERT INTO learning_sessions ...): begins the
\* transaction of the call and takes the write lock.
ExecuteInsertSession(p) ==
    /\ conn[p].pc = "log_connected"
    /\ WriteLockFree(p)
    /\ Len(detailed_progress) < MaxRows
    /\ conn' = [conn EXCEPT
                  ![p].pc = "session_inserted",
                  ![p].txn_sessions =
                      <<SessionRow(conn[p].user_id, conn[p].skill_name,
                                   conn[p].minutes_studied, "")>>]
    /\ UNCHANGED <<tables, now, open_writer, result, admin_tables>>

\* cursor.execute(INSERT OR REPLACE INTO detailed_progress ...): the
\* subquery reads the committed rows, the transaction has written none.
ExecuteInsertProgress(p) ==
    /\ conn[p].pc = "session_inserted"
    /\ conn' = [conn EXCEPT
                  ![p].pc = "progress_inserted",
                  ![p].txn_progress =
                      <<SessionProgressRow(conn[p].user_id, conn[p].skill_name,
                                           conn[p].minutes_studied)>>]
    /\ UNCHANGED <<tables, now, open_writer, result, admin_tables>>

\* conn.commit(); conn.close() in log_learning_session
CommitLog(p) ==
    /\ conn[p].pc = "progress_inserted"
    /\ learning_sessions' = learning_sessions \o conn[p].txn_sessions
    /\ detailed_progress' = detailed_progress \o conn[p].txn_progress
    /\ conn' = [conn EXCEPT ![p] = Closed]
    /\ result' = Returned
    /\ UNCHANGED <<achievements, learning_plans, now, open_writer,
                   admin_tables>>

\* A statement of log_learning_session raises: the call ends without
\* commit or close, and the connection stays open until it is finalized.
StorageFailure(p) ==
    /\ conn[p].pc \in LogPositions
    /\ conn' = [conn EXCEPT ![p].pc = "abandoned"]
    /\ result' = StorageError
    /\ UNCHANGED <<tables, now, open_writer, admin_tables>>

\* conn = sqlite3.connect('career_coach.db') in check_and_award_achievements
ConnectGrant(p, user_id, skill_name) ==
    /\ conn[p].pc = "closed"
    /\ conn' = [conn EXCEPT ![p] =
                  [Closed EXCEPT !.pc = "grant_connected",
                                 !.user_id = user_id,
                                 !.skill_name = skill_name]]
    /\ UNCHANGED <<tables, now, open_writer, result, admin_tables>>

\* cursor.execute(SELECT COUNT(*) ...); cursor.fetchone()[0]
SelectCount(p) ==
    /\ conn[p].pc = "grant_connected"
    /\ conn' = [conn EXCEPT
                  ![p].pc = "grant_counted",
                  ![p].count = CountAchievements(conn[p].user_id,
                                  CompletedName(conn[p].skill_name))]
    /\ UNCHANGED <<tables, now, open_writer, result, admin_tables>>

\* if ... == 0: cursor.execute(INSERT INTO achievements ...)
ExecuteInsertAchievement(p) ==
    /\ conn[p].pc = "grant_counted"
    /\ conn[p].count = 0
    /\ WriteLockFree(p)
    /\ conn' = [conn EXCEPT
                  ![p].pc = "achievement_inserted",
                  ![p].txn_achievements =
                      <<AchievementRow(conn[p].user_id, conn[p].skill_name)>>]
    /\ UNCHANGED <<tables, now, open_writer, result, admin_tables>>

\* conn.commit(); conn.close() after the insert
CommitGrant(p) ==
    /\ conn[p].pc = "achievement_inserted"
    /\ achievements' = achievements \o conn[p].txn_achievements
    /\ conn' = [conn EXCEPT ![p] = Closed]
    /\ result' = Returned
    /\ UNCHANGED <<detailed_progress, learning_sessions, learning_plans, now,
                   open_writer, admin_tables>>

\* conn.close() when the count was not 0
CloseGrant(p) ==
    /\ conn[p].pc = "grant_counted"
    /\ conn[p].count # 0
    /\ conn' = [conn EXCEPT ![p] = Closed]
    /\ result' = Returned
    /\ UNCHANGED <<tables, now, open_writer, admin_tables>>

\* The first INSERT of a call waits for the write lock another connection
\* holds, and raises "database is locked" when the timeout has passed.
BusyTimeout(p) ==
    /\ \/ conn[p].pc = "log_connected"
       \/ conn[p].pc = "grant_counted" /\ conn[p].count = 0
    /\ ~WriteLockFree(p)
    /\ conn' = [conn EXCEPT ![p].pc = "abandoned"]
    /\ result' = Locked
    /\ UNCHANGED <<tables, now, open_writer, admin_tables>>

\* The connection a raising call left open is finalized: its transaction
\* is rolled back, and the write lock released.
Finalize(p) ==
    /\ conn[p].pc = "abandoned"
    /\ conn' = [conn EXCEPT ![p] = Closed]
    /\ UNCHANGED <<tables, now, open_writer, result, admin_tables>>

NextConcurrent ==
    \/ \E p \in Conns, u \in Users, s \in PlanSkills, m \in ConcurrentMinutes :
          ConnectLog(p, u, s, m)
    \/ \E p \in Conns : ExecuteInsertSession(p)
    \/ \E p \in Conns : ExecuteInsertProgress(p)
    \/ \E p \in Conns : CommitLog(p)
    \/ \E p \in Conns : StorageFailure(p)
    \/ \E p \in Conns, u \in Users, s \in PlanSkills : ConnectGrant(p, u, s)
    \/ \E p \in Conns : SelectCount(p)
    \/ \E p \in Conns : ExecuteInsertAchievement(p)
    \/ \E p \in Conns : CommitGrant(p)
    \/ \E p \in Conns : CloseGrant(p)
    \/ \E p \in Conns : BusyTimeout(p)
    \/ \E p \in Conns : Finalize(p)
    \/ Tick

SpecConcurrent == Init /\ [][NextConcurrent]_vars

\* ------------------------------------------------------------ admin page
\* is_admin counting the rows of any user.
is_admin_AnyUser(user_id) ==
    Len(admin_users) > 0

\* SELECT COUNT(*) FROM admin_users WHERE user_id = ?  ...  [0] > 0
is_admin(user_id) ==
    Cardinality({i \in Indices(admin_users) :
                    admin_users[i].user_id = user_id}) > 0

\* INSERT OR IGNORE INTO admin_users (user_id) VALUES (?): the table has no
\* UNIQUE constraint on user_id, so no insert is ever ignored.
make_admin(user_id) ==
    /\ Len(admin_users) < MaxAdminRows
    /\ admin_users' = Append(admin_users,
                            [user_id |-> user_id, created_at |-> now])
    /\ result' = Returned
    /\ UNCHANGED <<tables, now, open_writer, conn, bulk_results>>

\* The loop over the uploaded files: a file whose analysis returns adds a
\* row to bulk_results, one whose analysis raises adds none.
RECURSIVE SaveResults(_, _, _, _, _)
SaveResults(rows, user_id, job_role, uploaded_files, analysis) ==
    IF uploaded_files = <<>> THEN rows
    ELSE SaveResults(
            IF Head(analysis).raises THEN rows
            ELSE Append(rows,
                    [admin_id |-> user_id, job_role |-> job_role,
                     filename |-> Head(uploaded_files),
                     score |-> COALESCE(Head(analysis).overall_score, 0),
                     selected |-> COALESCE(Head(analysis).selected, FALSE),
                     analysis_date |-> now]),
            user_id, job_role, Tail(uploaded_files), Tail(analysis))

\* One run of simple_admin_page, started by a button or by none.  The
\* buttons a run does not render cannot start it.
simple_admin_page(api_key, user_id, click, job_role, uploaded_files, analysis) ==
    /\ Len(analysis) = Len(uploaded_files)
    /\ Len(bulk_results) + Len(uploaded_files) <= MaxResults
    /\ IF ~is_admin(user_id)
       THEN IF click = "Grant Admin Access (Demo)"
            THEN make_admin(user_id)
            ELSE /\ result' = Refused
                 /\ UNCHANGED <<tables, now, open_writer, conn, admin_tables>>
       ELSE IF uploaded_files # <<>> /\ click = "Analyze Resumes"
       THEN IF api_key = ""
            THEN /\ result' = Refused
                 /\ UNCHANGED <<tables, now, open_writer, conn, admin_tables>>
            ELSE /\ bulk_results' = SaveResults(bulk_results, user_id, job_role,
                                                uploaded_files, analysis)
                 /\ result' = Returned
                 /\ UNCHANGED <<tables, now, open_writer, conn, admin_users>>
       ELSE /\ result' = Returned
            /\ UNCHANGED <<tables, now, open_writer, conn, admin_tables>>

\* The files a run may be given, with what their analysis does.
Uploads == {<<>>} \cup {<<f>> : f \in FileNames}
              \cup {<<f, g>> : f \in FileNames, g \in FileNames}
AnalysesOf(uploaded_files) ==
    IF Len(uploaded_files) = 0 THEN {<<>>}
    ELSE IF Len(uploaded_files) = 1 THEN {<<a>> : a \in Analyses}
    ELSE {<<a, b>> : a \in Analyses, b \in Analyses}

NextAdmin ==
    \/ \E u \in Visitors : make_admin(u)
    \/ \E k \in ApiKeys, u \in Visitors, c \in Clicks, j \in JobRoles,
          f \in Uploads :
          \E a \in AnalysesOf(f) : simple_admin_page(k, u, c, j, f, a)
    \/ Tick

SpecAdmin == Init /\ [][NextAdmin]_vars

\* ------------------------------------------------------------ Next
Next ==
    \/ \E u \in Users, s \in SkillArgs, m \in MinuteArgs :
          log_learning_session(u, s, m, "")
    \/ \E u \in Users, s \in PlanSkills, c \in CourseArgs,
          p \in PercentArgs, n \in NoteArgs :
          update_course_progress(u, s, c, p, n)
    \/ \E u \in Users, s \in PlanSkills :
          check_and_award_achievements(u, s)
    \/ \E u \in Users, s \in PlanSkills, h \in HourInputs, m \in MinuteInputs :
          LogSessionForm(u, s, h, m, "")
    \/ \E u \in Users, s \in PlanSkills, c \in CourseArgs,
          p \in SliderInputs, n \in NoteArgs :
          UpdateProgressForm(u, s, c, p, n)
    \/ FinalizeConnection
    \/ Tick

Spec == Init /\ [][Next]_vars

\* ------------------------------------------------------------ derived views
\* The records progress_for(user) lists for a skill.
RecordsFor(user_id, skill_name) ==
    LET listed == get_detailed_progress(user_id)
    IN  {k \in DOMAIN listed : listed[k].skill_name = skill_name}

\* The records of a skill that no other record of the skill is more recent
\* than: what progress_for(user) may list first for the skill.
Latest(user_id, skill_name) ==
    LET listed == get_detailed_progress(user_id)
        mine == RecordsFor(user_id, skill_name)
    IN  {listed[k] : k \in {k \in mine :
            \A j \in mine : listed[j].last_activity <= listed[k].last_activity}}

\* The sessions logged for a skill, in the order they were logged.
SessionsFor(user_id, skill_name) ==
    SelectSeq(learning_sessions,
        LAMBDA e : e.user_id = user_id /\ e.skill_name = skill_name)

RECURSIVE SumMinutes(_)
SumMinutes(sessions) ==
    IF sessions = <<>> THEN 0
    ELSE Head(sessions).minutes_studied + SumMinutes(Tail(sessions))

\* Every call so far passed what the specification allows: a skill name,
\* minutes above zero, a percentage from 0 to 100.
ValidInputs ==
    /\ \A k \in Indices(learning_sessions) :
          /\ learning_sessions[k].skill_name # ""
          /\ learning_sessions[k].minutes_studied > 0
    /\ \A i \in Indices(detailed_progress) :
          /\ detailed_progress[i].skill_name # ""
          /\ detailed_progress[i].progress_percentage \in 0..100

\* Every record of the skill was written by log_learning_session.
OnlySessions(user_id, skill_name) ==
    /\ SessionsFor(user_id, skill_name) # <<>>
    /\ Len(SessionsFor(user_id, skill_name)) =
          Cardinality(RecordsFor(user_id, skill_name))

\* ------------------------------------------------------------ claims

\* C1: after any sequence of successful log_session calls on one (user,
\* skill), the cumulative minutes reported for it equal the sum of the
\* minutes of all the calls.  Stated for a most recently active record of
\* the skill, whichever of them is taken.
C1_CumulativeMinutesAreTheSum ==
    \A u \in Users, s \in SkillArgs :
        (ValidInputs /\ OnlySessions(u, s)) =>
            \E r \in Latest(u, s) :
                r.time_spent_minutes = SumMinutes(SessionsFor(u, s))

\* C2: progress_for(user) holds at most one record per (user, skill).
C2_OneRecordPerSkill ==
    ValidInputs =>
        \A u \in Users, s \in SkillArgs :
            Cardinality(RecordsFor(u, s)) <= 1

\* The achievements achievements_for(user) lists under the name of a skill.
AwardsFor(user_id, skill_name) ==
    LET listed == get_achievements(user_id)
    IN  {k \in DOMAIN listed :
            listed[k].achievement_name = CompletedName(skill_name)}

\* C3: set_progress(user, skill, course, 100, note), made when the user has
\* no achievement for the skill, completes successfully; afterwards
\* achievements_for(user) holds exactly one "Completed {skill}" and the
\* progress update is committed.
C3_CompletionGrantsAchievement ==
    [][\A u \in Users, s \in PlanSkills, c \in CourseArgs, n \in NoteArgs :
        (/\ AwardsFor(u, s) = {}
         /\ ~open_writer
         /\ update_course_progress(u, s, c, 100, n))
        => /\ result' = Returned
           /\ Cardinality(AwardsFor(u, s)') = 1
           /\ \E r \in Latest(u, s)' : r.progress_percentage = 100]_vars

\* C4: in every state set_progress and log_session calls lead to, there is
\* at most one achievement per (user, "Completed {skill}"), however often
\* the percentage reaches 100, drops and reaches 100 again.
C4_AtMostOneAchievement ==
    \A u \in Users, s \in SkillArgs :
        /\ Cardinality(AwardsFor(u, s)) <= 1
        /\ CountAchievements(u, CompletedName(s)) <= 1

\* The percentage of the skill was set to 100, then below, then to 100
\* again, and the achievement is there once.
C4_Witness ==
    \E u \in Users, s \in PlanSkills :
        /\ Cardinality(AwardsFor(u, s)) = 1
        /\ \E i, j, k \in Indices(detailed_progress) :
              /\ i < j /\ j < k
              /\ \A x \in {i, j, k} :
                    /\ detailed_progress[x].user_id = u
                    /\ detailed_progress[x].skill_name = s
              /\ detailed_progress[i].progress_percentage = 100
              /\ detailed_progress[j].progress_percentage < 100
              /\ detailed_progress[k].progress_percentage = 100

\* C5: grant_if_absent called in sequence is idempotent: each call that
\* returns leaves exactly one stored achievement of type course_completion
\* named "Completed {skill}", and a call made when it is there, or one that
\* raises, changes nothing.
C5_GrantIsIdempotent ==
    [][\A u \in Users, s \in PlanSkills :
        check_and_award_achievements(u, s) =>
            /\ result' = Returned =>
                  /\ Cardinality(AwardsFor(u, s)') = 1
                  /\ \A k \in AwardsFor(u, s)' :
                        get_achievements(u)'[k].achievement_type = "course_completion"
            /\ AwardsFor(u, s) # {} =>
                  /\ result' = Returned
                  /\ achievements' = achievements
            /\ result' # Returned => achievements' = achievements]_vars

\* A state repeated grant_if_absent calls leave: only grants were made, the
\* achievement was stored at an earlier second, the last call returned, and
\* the achievement is there once.
C5_Witness ==
    \E u \in Users, s \in PlanSkills :
        /\ result = Returned
        /\ detailed_progress = <<>>
        /\ Cardinality(AwardsFor(u, s)) = 1
        /\ \A k \in AwardsFor(u, s) : get_achievements(u)[k].earned_date < now

\* C6: the completion timestamp is stamped only if not already set: a
\* second set_progress with 100 for the same (user, skill, course) leaves
\* the completion timestamp the first call wrote unchanged.
C6_CompletionStampedOnce ==
    [][\A u \in Users, s \in PlanSkills, c \in CourseArgs, n \in NoteArgs :
        (update_course_progress(u, s, c, 100, n) /\ result' = Returned) =>
            \A i \in Indices(detailed_progress) :
                (/\ detailed_progress[i].user_id = u
                 /\ detailed_progress[i].skill_name = s
                 /\ detailed_progress[i].course_name = Val(c)
                 /\ detailed_progress[i].progress_percentage = 100
                 /\ detailed_progress[i].completion_date # NULL)
                => detailed_progress'[i].completion_date =
                      detailed_progress[i].completion_date]_vars

\* A most recently active record of the skill has a completion timestamp.
HasCompletion(user_id, skill_name) ==
    \E r \in Latest(user_id, skill_name) : r.completion_date # NULL

\* C7: once the progress record of a (user, skill) has a completion
\* timestamp, no later log_session or set_progress clears it: the current
\* record of the skill still has one.
C7_CompletionNeverCleared ==
    [][\A u \in Users, s \in PlanSkills :
        (ValidInputs' /\ HasCompletion(u, s)) => HasCompletion(u, s)']_vars

\* The status the specification gives a percentage, and the rank of a status.
SpecStatus(p) ==
    IF p <= 0 THEN "not_started"
    ELSE IF p < 100 THEN "in_progress"
    ELSE "completed"
StatusRank(status) ==
    CASE status = "not_started" -> 0
      [] status = "in_progress" -> 1
      [] status = "completed" -> 2

\* C8: after a successful set_progress(user, skill, course, p, note) the
\* status recorded for (user, skill) is not_started when p <= 0,
\* in_progress when 0 < p < 100 and completed when p >= 100; the status
\* rank never decreases as p increases.
C8_StatusFollowsPercentage ==
    [][\A u \in Users, s \in PlanSkills, c \in CourseArgs,
          p \in PercentArgs, n \in NoteArgs :
        (update_course_progress(u, s, c, p, n) /\ result' = Returned) =>
            /\ learning_plans'[<<u, s>>] = SpecStatus(p)
            /\ \A q \in PercentArgs :
                  q <= p => StatusRank(learning_plans'[<<u, s>>])
                              >= StatusRank(StatusOf(q))]_vars

\* set_progress has returned for a percentage at or below 0, for one
\* between 0 and 100 and for one at or above 100, the last of them just now.
C8_Witness ==
    \E u \in Users, s \in PlanSkills :
        /\ result = Returned
        /\ Len(detailed_progress) = 3
        /\ \A i \in 1..3 :
              /\ detailed_progress[i].user_id = u
              /\ detailed_progress[i].skill_name = s
              /\ detailed_progress[i].notes # NULL
        /\ detailed_progress[1].progress_percentage <= 0
        /\ detailed_progress[2].progress_percentage \in 1..99
        /\ detailed_progress[3].progress_percentage >= 100
        /\ learning_plans[<<u, s>>] = "completed"

\* C9: set_progress is an absolute set, the last write wins: after
\* set_progress(u, s, c, p1, n1) and then set_progress(u, s, c, p2, n2) the
\* percentage reported for (u, s) is p2, for all p1, p2 in 0..100.  Stated
\* for a most recently active record of the skill, whichever is taken.
C9_LastWriteWins ==
    [][\A u \in Users, s \in PlanSkills, c \in CourseArgs, n \in NoteArgs,
          p2 \in PercentArgs \cap 0..100 :
        (/\ ValidInputs
         /\ ~open_writer
         /\ \E i \in Indices(detailed_progress) :
               /\ detailed_progress[i].user_id = u
               /\ detailed_progress[i].skill_name = s
               /\ detailed_progress[i].course_name = Val(c)
         /\ update_course_progress(u, s, c, p2, n))
        => \E r \in Latest(u, s)' : r.progress_percentage = p2]_vars

\* C10: log_session with an empty skill name or with minutes <= 0 is
\* rejected before any mutation: no session is appended and no progress
\* record is created or changed.
C10_InvalidSessionRejected ==
    [][\A u \in Users, s \in SkillArgs, m \in MinuteArgs :
        ((s = "" \/ m <= 0) /\ ~open_writer /\ log_learning_session(u, s, m, ""))
        => /\ result' # Returned
           /\ UNCHANGED tables]_vars

\* C11: every stored progress percentage lies in 0..100: set_progress with
\* a percentage below 0 or above 100 never leaves a stored percentage
\* outside that range.
C11_PercentageInRange ==
    \A i \in Indices(detailed_progress) :
        detailed_progress[i].progress_percentage \in 0..100

\* The minutes a log_session call of the model may pass: those of a direct
\* call and the totals of the form.
LoggedMinutes ==
    MinuteArgs \cup {(h * 60) + m : h \in HourInputs, m \in MinuteInputs}

\* C13: for a fixed (user, skill) the cumulative minutes progress_for
\* reports never decrease across successive log_session calls: the value
\* after each call is at least the value before it.  Stated for the
\* most recently active records of the skill, whichever of them is taken
\* before and after.
C13_MinutesNeverDecrease ==
    [][\A u \in Users, s \in PlanSkills, m \in LoggedMinutes :
        (/\ ValidInputs'
         /\ OnlySessions(u, s)
         /\ log_learning_session(u, s, m, "")
         /\ result' = Returned)
        => \E r \in Latest(u, s), r2 \in Latest(u, s)' :
              r2.time_spent_minutes >= r.time_spent_minutes]_vars

\* The events sessions_for(user, 30) lists.
ListedSessions(user_id) ==
    LET listed == get_learning_sessions(user_id, 30)
    IN  {listed[k] : k \in DOMAIN listed}

\* C16: the session log is append-only.  Every step keeps the events
\* logged so far, unchanged and in place; a log_session call that returns
\* adds exactly one event, the one it was called with, after them; no
\* other step adds one; and what sessions_for listed is still listed.
C16_SessionLogAppendOnly ==
    [][/\ Len(learning_sessions') >= Len(learning_sessions)
       /\ SubSeq(learning_sessions', 1, Len(learning_sessions)) = learning_sessions
       /\ \A u \in Users, s \in SkillArgs, m \in LoggedMinutes :
             (log_learning_session(u, s, m, "") /\ result' = Returned) =>
                /\ Len(learning_sessions') = Len(learning_sessions) + 1
                /\ learning_sessions'[Len(learning_sessions')] =
                      [user_id |-> u, skill_name |-> s,
                       session_date |-> DATE(now), minutes_studied |-> m,
                       notes |-> "", created_at |-> now]
                /\ Len(get_learning_sessions(u, 30)') =
                      Len(get_learning_sessions(u, 30)) + 1
       /\ learning_sessions' # learning_sessions =>
             \E u \in Users, s \in SkillArgs, m \in LoggedMinutes :
                log_learning_session(u, s, m, "") /\ result' = Returned
       /\ \A u \in Users : ListedSessions(u) \subseteq ListedSessions(u)']_vars

\* Two events were logged for one skill at different seconds, then
\* grant_if_absent and set_progress wrote, and the two events are listed
\* as they were logged.
C16_Witness ==
    \E u \in Users, s \in PlanSkills :
        /\ Len(learning_sessions) = 2
        /\ \A k \in 1..2 :
              /\ learning_sessions[k].user_id = u
              /\ learning_sessions[k].skill_name = s
              /\ learning_sessions[k].created_at = k
        /\ learning_sessions[1].minutes_studied = 30
        /\ learning_sessions[2].minutes_studied = 60
        /\ Len(get_learning_sessions(u, 30)) = 2
        /\ get_learning_sessions(u, 30)[1].minutes_studied = 30
        /\ get_learning_sessions(u, 30)[2].minutes_studied = 60
        /\ Len(detailed_progress) = 3
        /\ detailed_progress[3].course_name # NULL
        /\ achievements # <<>>

\* C17: set_progress leaves the cumulative minutes progress_for reports
\* for the (user, skill) unchanged.  Stated for the most recently active
\* records of the skill, whichever of them is taken before and after.
C17_SetProgressKeepsMinutes ==
    [][\A u \in Users, s \in PlanSkills, c \in CourseArgs, n \in NoteArgs,
          p \in PercentArgs \cap 0..100 :
        (/\ ValidInputs
         /\ RecordsFor(u, s) # {}
         /\ update_course_progress(u, s, c, p, n)
         /\ result' = Returned)
        => \E r \in Latest(u, s), r2 \in Latest(u, s)' :
              r2.time_spent_minutes = r.time_spent_minutes]_vars

\* C18: log_session leaves the percentage, the course name, the note and
\* the completion timestamp progress_for reports for the (user, skill)
\* unchanged.  Stated for the most recently active records of the skill,
\* whichever of them is taken before and after.
C18_LogSessionKeepsTheRest ==
    [][\A u \in Users, s \in PlanSkills, m \in LoggedMinutes :
        (/\ ValidInputs'
         /\ RecordsFor(u, s) # {}
         /\ log_learning_session(u, s, m, "")
         /\ result' = Returned)
        => \E r \in Latest(u, s), r2 \in Latest(u, s)' :
              /\ r2.progress_percentage = r.progress_percentage
              /\ r2.course_name = r.course_name
              /\ r2.notes = r.notes
              /\ r2.completion_date = r.completion_date]_vars

\* C12: log_session is all-or-nothing.  A step in which a statement of the
\* call fails, before the session insert, between it and the progress
\* write, or before commit, leaves the committed session events and
\* progress records as they were, and so does the end of the failed
\* call's connection; they change only by the commit of a call that
\* returns, which publishes its one event and its one progress row together.
C12_LogSessionAllOrNothing ==
    [][/\ \A p \in Conns :
             (conn[p].pc \in LogPositions \cup {"abandoned"}
                 /\ conn'[p].pc \in {"abandoned", "closed"}
                 /\ result' # Returned)
             => UNCHANGED <<learning_sessions, detailed_progress>>
       /\ \A p \in Conns :
             (conn[p].pc = "abandoned" /\ conn'[p].pc = "closed")
             => UNCHANGED <<learning_sessions, detailed_progress>>
       /\ (learning_sessions' # learning_sessions
             \/ detailed_progress' # detailed_progress)
          => \E p \in Conns :
                /\ conn[p].pc = "progress_inserted"
                /\ conn'[p].pc = "closed"
                /\ result' = Returned
                /\ Len(learning_sessions') = Len(learning_sessions) + 1
                /\ Len(detailed_progress') = Len(detailed_progress) + 1
                /\ SubSeq(learning_sessions', 1, Len(learning_sessions))
                      = learning_sessions
                /\ SubSeq(detailed_progress', 1, Len(detailed_progress))
                      = detailed_progress]_vars

\* One call has committed its event; another has failed before commit,
\* with its session insert and its progress write made, and its connection
\* has been finalized; the committed tables hold the one event.
C12_Witness ==
    /\ Len(learning_sessions) = 1
    /\ Len(detailed_progress) = 1
    /\ result = StorageError
    /\ \E p \in Conns :
          /\ conn[p].pc = "abandoned"
          /\ conn[p].txn_sessions # <<>>
          /\ conn[p].txn_progress # <<>>

\* C14: no update is lost to concurrency.  When a log_session call commits
\* while another call for the same (user, skill) is open on another
\* connection, the cumulative minutes reported for the skill are the sum of
\* the minutes of all committed calls.  Stated for a most recently active
\* record of the skill, whichever of them is taken.
C14_NoLostUpdate ==
    [][\A p \in Conns, q \in Conns, u \in Users, s \in PlanSkills :
        (/\ p # q
         /\ CommitLog(p)
         /\ conn[p].user_id = u /\ conn[p].skill_name = s
         /\ conn[q].pc \in LogPositions
         /\ conn[q].user_id = u /\ conn[q].skill_name = s)
        => \E r \in Latest(u, s)' :
              r.time_spent_minutes = SumMinutes(SessionsFor(u, s)')]_vars

\* C15: at most one achievement per (user, "Completed {skill}") is stored,
\* also when two grant_if_absent calls run concurrently.
C15_AtMostOneUnderConcurrency ==
    \A u \in Users, s \in PlanSkills :
        Cardinality(AwardsFor(u, s)) <= 1

\* C19: in the admin page, results are written to bulk_results only for a
\* user for whom is_admin is true at that time; is_admin(user) becomes
\* true only by make_admin(user), stays true from then on, and a repeated
\* make_admin changes the answer of is_admin for no user.
C19_ResultsOnlyForAdmins ==
    [][/\ Len(bulk_results') >= Len(bulk_results)
       /\ \A k \in (Len(bulk_results) + 1)..Len(bulk_results') :
             is_admin(bulk_results'[k].admin_id)
       /\ \A u \in Visitors :
             /\ is_admin(u) => is_admin(u)'
             /\ (~is_admin(u) /\ is_admin(u)') => make_admin(u)
             /\ make_admin(u) =>
                   /\ is_admin(u)'
                   /\ \A v \in Visitors \ {u} : is_admin(v)' = is_admin(v)]_vars

\* User 1 was made admin twice and has results in bulk_results; user 2
\* was refused just now and is no admin.
C19_Witness ==
    /\ Cardinality({i \in Indices(admin_users) : admin_users[i].user_id = 1}) = 2
    /\ is_admin(1)
    /\ ~is_admin(2)
    /\ Len(bulk_results) = 2
    /\ \A k \in Indices(bulk_results) : bulk_results[k].admin_id = 1
    /\ result = Refused
====
